---- MODULE Spec2Model ----
\* State-machine model of iab-docs-bot:
\*   gemini.ts   generateAnswer, the bounded agent loop
\*   mcp.ts      getClient / closeClient, the memoized MCP client handle,
\*               and searchDocuments
\*   skill.ts    getSkillContext, the one-hour cache of skill.md
\*   ingest      verifySlackSignature and the /slack/events handler
EXTENDS Integers, Sequences, FiniteSets, TLC

----------------------------------------------------------------------------
\* Bounds of the model.

\* function calls a single model response may carry
MaxCalls == 2
\* clock advances explored
MaxTicks == 1
\* closeClient calls explored
MaxCloses == 2
\* getSkillContext calls made by the free-running callers of SkillSpec
MaxSkillCalls == 2
\* content items a callTool result may carry
MaxItems == 2
\* Date.now() when the process starts
StartClock == 1000000000

----------------------------------------------------------------------------
\* Program constants.

MAX_ITERATIONS == 10
CACHE_TTL_MS == 60 * 60 * 1000

\* The two fixed answers of a failed generateAnswer (ASCII stand-ins for the
\* Japanese literals of gemini.ts:59 and gemini.ts:131).
ConfigErrorAnswer == "config error: GEMINI_API_KEY is not set"
GenericErrorAnswer == "an error occurred while generating the answer"

\* null of string | null and of Client | null
Null == "<null>"
NoClient == 0

----------------------------------------------------------------------------
\* Input domains.

Questions == {"q1"}
\* response.text() values of the model
Texts == {"", "t1"}
\* tool names the model may ask for; only the names of Catalog are served
ToolNames == {"search_docs", "no_such_tool"}
Catalog == {"search_docs"}
ToolArgs == {"a1"}
\* content of a successful tool result, message of a failed one
ToolContents == {"c1"}
ToolErrors == {"e1"}
UnknownToolError == "unknown tool"
\* err.message of an exception that reaches the top-level catch clause
ErrorMessages == {"m1", "m2"}
\* bodies skill.md may have (the empty body is a successful fetch too)
SkillTexts == {"", "s1"}
\* amounts the clock advances by: the last age that is still fresh and the
\* first that is stale
TickSteps == {CACHE_TTL_MS - 1, CACHE_TTL_MS}

\* concurrent callers of getClient / getSkillContext; the agent loop is caller 1
Callers == {"agent", "other"}
Agent == "agent"
Handles == 1..(MaxCloses + 1)

FunctionCall == [name : ToolNames, args : ToolArgs]

RECURSIVE SeqsUpTo(_, _)
SeqsUpTo(S, n) ==
    IF n = 0 THEN {<<>>}
    ELSE LET shorter == SeqsUpTo(S, n - 1)
         IN  shorter \cup {Append(s, x) : s \in {t \in shorter : Len(t) = n - 1}, x \in S}

\* What a model turn can return: a response with text and function calls, or
\* a response whose accessors functionCalls() and text() throw (blocked).
Responses ==
    {[calls |-> cs, text |-> t, blocked |-> FALSE] :
        cs \in SeqsUpTo(FunctionCall, MaxCalls), t \in Texts}
    \cup {[calls |-> <<>>, text |-> "", blocked |-> TRUE]}

NoResponse == [calls |-> <<>>, text |-> "", blocked |-> FALSE]
NoResult == [answer |-> "", success |-> FALSE, returned |-> FALSE]
NoMessage == [kind |-> "none", text |-> "", parts |-> <<>>]
NoPrompt == [skillSection |-> FALSE, skillMd |-> ""]

----------------------------------------------------------------------------
VARIABLES
    \* gemini.ts
    apiKey,        \* GEMINI_API_KEY is non-empty
    pc,            \* position of generateAnswer
    question,      \* argument of the running call
    iteration,     \* the loop counter
    response,      \* result.response
    callIdx,       \* index of the function call the for loop is at
    parts,         \* tool result parts collected in this round
    systemPrompt,  \* what buildSystemPrompt returned
    err,           \* origin of the exception caught at the top level
    errMsg,        \* err.message of that exception
    result,        \* what generateAnswer returned
    \* the chat with the model, as the model sees it
    sent,          \* the message sent with chat.sendMessage and not yet answered
    sentCount,     \* messages sent in this run
    roundsSent,    \* tool-result messages sent in this run
    toolLog,       \* callMcpTool invocations of this round, with outcomes
    \* mcp.ts
    client,        \* the module-level client handle
    conn,          \* connection state of every Client object created
    closes,        \* closeClient calls made
    closing,       \* closeClient calls waiting for client.close() at line 99
    mcPc,          \* position of each caller inside getClient
    mcHandle,      \* the Client object a caller connects / was returned
    \* skill.ts
    cachedContent,
    cachedAt,
    clock,         \* Date.now()
    ticks,
    skPc,          \* position of each caller inside getSkillContext
    skNow,         \* the caller's local `now`
    skRet,         \* the value the call returned
    skLog,         \* history of the getSkillContext calls of SkillSpec
    \* mcp.ts, searchDocuments
    sdPc,          \* position inside searchDocuments
    sdTools,       \* names of the tools listTools returned
    searchTool,    \* the tool found at lines 50-52
    sdCall,        \* the callTool request sent
    sdOut,         \* how the call settled, and the SearchResult returned
    \* the Slack ingest service
    igPc,          \* position inside the /slack/events handler
    igReq,         \* the request being handled
    igVerified,    \* how verifySlackSignature ended
    igRes,         \* the response sent
    published      \* messages published to the topic

agentVars == <<apiKey, pc, question, iteration, response, callIdx, parts,
               systemPrompt, err, errMsg, result, sent, sentCount, roundsSent, toolLog>>
mcpVars == <<client, conn, closes, closing, mcPc, mcHandle>>
skillVars == <<cachedContent, cachedAt, clock, ticks, skPc, skNow, skRet, skLog>>
searchVars == <<sdPc, sdTools, searchTool, sdCall, sdOut>>
ingestVars == <<igPc, igReq, igVerified, igRes, published>>
vars == <<agentVars, mcpVars, skillVars, searchVars, ingestVars>>

----------------------------------------------------------------------------
\* skill.ts: getSkillContext

\* Variant of CacheFresh: the cached value is never served.
CacheNeverFresh(now) == FALSE

\* Variant of CacheFresh: the window is one millisecond short.
CacheFreshEarly(now) == cachedContent # Null /\ now - cachedAt < CACHE_TTL_MS - 1

\* line 9: the cached value is served when present and younger than the TTL
CacheFresh(now) == cachedContent # Null /\ now - cachedAt < CACHE_TTL_MS

\* line 23: cachedContent ?? ''
CachedOrEmpty == IF cachedContent = Null THEN "" ELSE cachedContent

\* lines 8-14: read the clock, serve the cache or issue the fetch
SkillBegin(c) ==
    /\ skPc[c] = "idle"
    /\ skNow' = [skNow EXCEPT ![c] = clock]
    /\ IF CacheFresh(clock)
       THEN /\ skPc' = [skPc EXCEPT ![c] = "returned"]
            /\ skRet' = [skRet EXCEPT ![c] = cachedContent]
       ELSE /\ skPc' = [skPc EXCEPT ![c] = "fetching"]
            /\ UNCHANGED skRet
    /\ UNCHANGED <<cachedContent, cachedAt, clock, ticks>>

\* lines 15-20: the fetch answered 2xx with body text
SkillFetchOk(c, text) ==
    /\ skPc[c] = "fetching"
    /\ cachedContent' = text
    /\ cachedAt' = skNow[c]
    /\ skPc' = [skPc EXCEPT ![c] = "returned"]
    /\ skRet' = [skRet EXCEPT ![c] = text]
    /\ UNCHANGED <<clock, ticks, skNow>>

\* Variant of SkillFetchFail: the failure clears the cache.
SkillFetchFailClears(c) ==
    /\ skPc[c] = "fetching"
    /\ cachedContent' = Null
    /\ cachedAt' = 0
    /\ skPc' = [skPc EXCEPT ![c] = "returned"]
    /\ skRet' = [skRet EXCEPT ![c] = ""]
    /\ UNCHANGED <<clock, ticks, skNow>>

\* Variant of SkillFetchFail: the failure resets the timestamp to force a
\* refetch.
SkillFetchFailResetsStamp(c) ==
    /\ skPc[c] = "fetching"
    /\ cachedAt' = 0
    /\ skPc' = [skPc EXCEPT ![c] = "returned"]
    /\ skRet' = [skRet EXCEPT ![c] = CachedOrEmpty]
    /\ UNCHANGED <<cachedContent, clock, ticks, skNow>>

\* Variant of SkillFetchFail: there is no catch clause, the call rejects.
SkillFetchFailThrows(c) ==
    /\ skPc[c] = "fetching"
    /\ skPc' = [skPc EXCEPT ![c] = "threw"]
    /\ UNCHANGED <<cachedContent, cachedAt, clock, ticks, skNow, skRet>>

\* lines 15, 21-24: the fetch rejected or answered non-2xx
SkillFetchFail(c) ==
    /\ skPc[c] = "fetching"
    /\ skPc' = [skPc EXCEPT ![c] = "returned"]
    /\ skRet' = [skRet EXCEPT ![c] = CachedOrEmpty]
    /\ UNCHANGED <<cachedContent, cachedAt, clock, ticks, skNow>>

\* Date.now() advances
Tick(d) ==
    /\ ticks < MaxTicks
    /\ clock' = clock + d
    /\ ticks' = ticks + 1
    /\ UNCHANGED <<cachedContent, cachedAt, skPc, skNow, skRet>>

----------------------------------------------------------------------------
\* mcp.ts: getClient, closeClient

\* a caller enters getClient
McpCall(c) ==
    /\ mcPc[c] = "idle"
    /\ mcPc' = [mcPc EXCEPT ![c] = "called"]
    /\ UNCHANGED <<client, conn, closes, closing, mcHandle>>

\* lines 17-19: the memoized handle is returned as it is
GetClientCached(c) ==
    /\ mcPc[c] = "called"
    /\ client # NoClient
    /\ mcPc' = [mcPc EXCEPT ![c] = "returned"]
    /\ mcHandle' = [mcHandle EXCEPT ![c] = client]
    /\ UNCHANGED <<client, conn, closes, closing>>

\* lines 21-24: a new Client is stored in the module variable, then connect
\* is awaited
GetClientNew(c) ==
    /\ mcPc[c] = "called"
    /\ client = NoClient
    /\ \E h \in Handles :
        /\ conn[h] = "unused"
        /\ \A g \in Handles : g < h => conn[g] # "unused"
        /\ client' = h
        /\ conn' = [conn EXCEPT ![h] = "connecting"]
        /\ mcHandle' = [mcHandle EXCEPT ![c] = h]
    /\ mcPc' = [mcPc EXCEPT ![c] = "connecting"]
    /\ UNCHANGED <<closes, closing>>

\* lines 24-28: connect resolves and listTools is called on the client the
\* module variable holds by then; on null the call throws a TypeError
ConnectOk(c) ==
    /\ mcPc[c] = "connecting"
    /\ conn[mcHandle[c]] = "connecting"
    /\ conn' = [conn EXCEPT ![mcHandle[c]] = "connected"]
    /\ IF client = NoClient
       THEN /\ mcPc' = [mcPc EXCEPT ![c] = "threw"]
            /\ UNCHANGED mcHandle
       ELSE /\ mcPc' = [mcPc EXCEPT ![c] = "listing"]
            /\ mcHandle' = [mcHandle EXCEPT ![c] = client]
    /\ UNCHANGED <<client, closes, closing>>

\* line 24 rejects: getClient throws, nothing after line 24 runs
ConnectFail(c) ==
    /\ mcPc[c] = "connecting"
    /\ conn' = [conn EXCEPT ![mcHandle[c]] = "closed"]
    /\ mcPc' = [mcPc EXCEPT ![c] = "threw"]
    /\ UNCHANGED <<client, closes, closing, mcHandle>>

\* A request on a Client succeeds only while it is connected.
CanServe(h) == h # NoClient /\ conn[h] = "connected"

\* lines 28-34: the listTools request resolves and the module variable is
\* returned as it is by then, null included
ClientListOk(c) ==
    /\ mcPc[c] = "listing"
    /\ CanServe(mcHandle[c])
    /\ mcPc' = [mcPc EXCEPT ![c] = "returned"]
    /\ mcHandle' = [mcHandle EXCEPT ![c] = client]
    /\ UNCHANGED <<client, conn, closes, closing>>

\* line 28 rejects
ClientListFail(c) ==
    /\ mcPc[c] = "listing"
    /\ mcPc' = [mcPc EXCEPT ![c] = "threw"]
    /\ UNCHANGED <<client, conn, closes, closing, mcHandle>>

\* lines 97-99: closeClient finds a client and calls close() on it; the module
\* variable keeps the handle while close() is pending
CloseClient ==
    /\ closes < MaxCloses
    /\ client # NoClient
    /\ conn' = [conn EXCEPT ![client] = "closed"]
    /\ closes' = closes + 1
    /\ closing' = closing + 1
    /\ UNCHANGED <<client, mcPc, mcHandle>>

\* lines 99-100: close() resolves and the module variable is emptied,
\* whichever client it holds by then
CloseResolves ==
    /\ closing > 0
    /\ client' = NoClient
    /\ closing' = closing - 1
    /\ UNCHANGED <<conn, closes, mcPc, mcHandle>>

\* line 99 rejects: closeClient throws and line 100 does not run
CloseRejects ==
    /\ closing > 0
    /\ closing' = closing - 1
    /\ UNCHANGED <<client, conn, closes, mcPc, mcHandle>>

----------------------------------------------------------------------------
\* mcp.ts, searchDocuments (lines 40-92). Strings the code inspects are
\* sequences of one-character strings.

Upper == <<"A", "B", "C", "D", "E", "F", "G", "H", "I", "J", "K", "L", "M",
           "N", "O", "P", "Q", "R", "S", "T", "U", "V", "W", "X", "Y", "Z">>
Lower == <<"a", "b", "c", "d", "e", "f", "g", "h", "i", "j", "k", "l", "m",
           "n", "o", "p", "q", "r", "s", "t", "u", "v", "w", "x", "y", "z">>

\* String.prototype.toLowerCase
toLowerCase(str) ==
    [i \in 1..Len(str) |->
        IF \E k \in DOMAIN Upper : Upper[k] = str[i]
        THEN Lower[CHOOSE k \in DOMAIN Upper : Upper[k] = str[i]]
        ELSE str[i]]

\* the substring of str that starts at position i, if it is sub
StartsAt(str, sub, i) ==
    /\ i >= 1
    /\ i + Len(sub) - 1 <= Len(str)
    /\ SubSeq(str, i, i + Len(sub) - 1) = sub

\* String.prototype.includes
includes(str, sub) == \E i \in 1..(Len(str) + 1) : StartsAt(str, sub, i)

\* lines 50-52: the predicate of tools.find
IsSearchTool(name) ==
    \/ includes(toLowerCase(name), <<"s", "e", "a", "r", "c", "h">>)
    \/ includes(toLowerCase(name), <<"q", "u", "e", "r", "y">>)

NoTool == [listed |-> FALSE, found |-> FALSE, name |-> <<>>]

\* lines 50-52: tools.find returns the first tool that satisfies the predicate
FindSearchTool(tools) ==
    IF \E i \in DOMAIN tools : IsSearchTool(tools[i])
    THEN [listed |-> TRUE, found |-> TRUE,
          name |-> tools[CHOOSE i \in DOMAIN tools :
                            /\ IsSearchTool(tools[i])
                            /\ \A j \in 1..(i - 1) : ~IsSearchTool(tools[j])]]
    ELSE [listed |-> TRUE, found |-> FALSE, name |-> <<>>]

\* the first position from `from` on where str holds ch, 0 when there is none
IndexFrom(str, ch, from) ==
    IF \E k \in from..Len(str) : str[k] = ch
    THEN CHOOSE k \in from..Len(str) :
            str[k] = ch /\ \A j \in from..(k - 1) : str[j] # ch
    ELSE 0

\* line 78, https?:\/\/ at position i: the position after it, 0 when absent
SchemeEnd(str, i) ==
    IF StartsAt(str, <<"h", "t", "t", "p", ":", "/", "/">>, i) THEN i + 7
    ELSE IF StartsAt(str, <<"h", "t", "t", "p", "s", ":", "/", "/">>, i) THEN i + 8
    ELSE 0

\* line 78: the regular expression \[([^\]]+)\]\((https?:\/\/[^\)]+)\) tried
\* at position i: the position of the closing parenthesis, 0 when it does not
\* match there. The label runs to the first "]" and the url to the first ")",
\* each at least one character long.
MatchEnd(str, i) ==
    IF i > Len(str) \/ str[i] # "[" THEN 0
    ELSE LET close == IndexFrom(str, "]", i + 1)
         IN  IF close < i + 2 \/ ~StartsAt(str, <<"(">>, close + 1) THEN 0
             ELSE LET url == SchemeEnd(str, close + 2)
                      paren == IF url = 0 THEN 0 ELSE IndexFrom(str, ")", url)
                  IN  IF paren <= url THEN 0 ELSE paren

\* line 78: str.match with the g flag, the matches from left to right, each
\* search resuming after the previous match
RECURSIVE MatchFrom(_, _)
MatchFrom(str, i) ==
    IF i > Len(str) THEN <<>>
    ELSE LET end == MatchEnd(str, i)
         IN  IF end = 0 THEN MatchFrom(str, i + 1)
             ELSE <<SubSeq(str, i, end)>> \o MatchFrom(str, end + 1)

\* Variant of Dedup: the list is returned as it is.
DedupKeepsAll(list) == list

\* line 90: [...new Set(sources)], the first occurrence of each value in
\* insertion order
RECURSIVE Dedup(_)
Dedup(list) ==
    IF list = <<>> THEN <<>>
    ELSE LET front == Dedup(SubSeq(list, 1, Len(list) - 1))
             last == list[Len(list)]
         IN  IF \E i \in DOMAIN front : front[i] = last THEN front
             ELSE Append(front, last)

\* the white space and line terminators of String.prototype.trim below
\* U+0080: tab, line feed, vertical tab (U+000B, written as the character
\* itself), form feed, carriage return, space; the ones above U+007F are not
\* characters a string of this module can hold
WhiteSpace == {" ", "\t", "\n", "", "\f", "\r"}

\* line 89: String.prototype.trim
RECURSIVE trim(_)
trim(str) ==
    IF str = <<>> THEN <<>>
    ELSE IF str[1] \in WhiteSpace THEN trim(SubSeq(str, 2, Len(str)))
    ELSE IF str[Len(str)] \in WhiteSpace THEN trim(SubSeq(str, 1, Len(str) - 1))
    ELSE str

\* line 74: the items the loop reads
IsTextItem(item) == item.type = "text" /\ item.isString

\* lines 72-75: content after the loop
RECURSIVE ContentOf(_)
ContentOf(items) ==
    IF items = <<>> THEN <<>>
    ELSE LET item == items[Len(items)]
             front == ContentOf(SubSeq(items, 1, Len(items) - 1))
         IN  IF IsTextItem(item) THEN front \o item.text \o <<"\n", "\n">>
             ELSE front

\* lines 72-82: sources after the loop
RECURSIVE SourcesOf(_)
SourcesOf(items) ==
    IF items = <<>> THEN <<>>
    ELSE LET item == items[Len(items)]
             front == SourcesOf(SubSeq(items, 1, Len(items) - 1))
         IN  IF IsTextItem(item) THEN front \o MatchFrom(item.text, 1)
             ELSE front

NoCall == [sent |-> FALSE, name |-> <<>>, query |-> ""]
NoOut == [settled |-> "none", content |-> <<>>, sources |-> <<>>, pushed |-> <<>>]

\* lines 87-91: the SearchResult returned; pushed is the local list `sources`
\* as line 80 left it
SearchResult(res) ==
    LET items == IF res.isArray THEN res.items ELSE <<>>
    IN  [settled |-> "returned",
         content |-> trim(ContentOf(items)),
         sources |-> Dedup(SourcesOf(items)),
         pushed |-> SourcesOf(items)]

\* line 56: nothing to search with
EmptyResult == [settled |-> "returned", content |-> <<>>, sources |-> <<>>, pushed |-> <<>>]

Thrown == [settled |-> "threw", content |-> <<>>, sources |-> <<>>, pushed |-> <<>>]

\* lines 40-44: getClient resolved and listTools is requested
SearchBegin(query) ==
    /\ sdPc = "idle"
    /\ sdPc' = "listing"
    /\ sdCall' = [sent |-> FALSE, name |-> <<>>, query |-> query]
    /\ UNCHANGED <<sdTools, searchTool, sdOut>>

\* line 44 rejects
SearchListFails ==
    /\ sdPc = "listing"
    /\ sdPc' = "done"
    /\ sdOut' = Thrown
    /\ UNCHANGED <<sdTools, searchTool, sdCall>>

\* lines 44-66: the tools are listed; without a search tool the empty result
\* is returned, otherwise callTool is requested
SearchListResolves(tools) ==
    /\ sdPc = "listing"
    /\ sdTools' = tools
    /\ searchTool' = FindSearchTool(tools)
    /\ IF searchTool'.found
       THEN /\ sdPc' = "calling"
            /\ sdCall' = [sdCall EXCEPT !.sent = TRUE, !.name = searchTool'.name]
            /\ UNCHANGED sdOut
       ELSE /\ sdPc' = "done"
            /\ sdOut' = EmptyResult
            /\ UNCHANGED sdCall

\* line 61 rejects
SearchCallFails ==
    /\ sdPc = "calling"
    /\ sdPc' = "done"
    /\ sdOut' = Thrown
    /\ UNCHANGED <<sdTools, searchTool, sdCall>>

\* lines 61-91: callTool resolves and its content is post-processed
SearchCallResolves(res) ==
    /\ sdPc = "calling"
    /\ sdPc' = "done"
    /\ sdOut' = SearchResult(res)
    /\ UNCHANGED <<sdTools, searchTool, sdCall>>

----------------------------------------------------------------------------
\* The Slack ingest service: verifySlackSignature (lines 26-45) and the
\* /slack/events handler (lines 50-103).

SLACK_SIGNING_SECRET == "secret"

\* line 36: the replay window in seconds
ReplayWindow == 300

\* line 42: 'v0=' followed by the 64 hex digits of a SHA-256 digest
SignatureBytes == 67

\* line 35: Math.floor(Date.now() / 1000)
NowSeconds == clock \div 1000

Abs(n) == IF n < 0 THEN -n ELSE n

NoTimestamp == [kind |-> "absent", value |-> 0]

\* x-slack-request-timestamp: absent, not a number, or a number of seconds
TimestampHeaders ==
    {NoTimestamp, [kind |-> "text", value |-> 0]}
    \cup {[kind |-> "number", value |-> NowSeconds + d] :
            d \in {-ReplayWindow - 1, -ReplayWindow, 0, ReplayWindow, ReplayWindow + 1}}

EmptyBody == [type |-> "absent", event |-> "absent"]

\* req.body as the JSON parser left it
Bodies ==
    {[type |-> "url_verification", event |-> "absent"],
     [type |-> "other", event |-> "absent"]}
    \cup {[type |-> "event_callback", event |-> e] :
            e \in {"app_mention", "message", "absent"}}

SigningKeys == {SLACK_SIGNING_SECRET, "guess"}

\* line 42: 'v0=' + HMAC-SHA256(key, `v0:${timestamp}:${rawBody}`) in hex;
\* two signatures are equal when key, timestamp and body are
Sign(key, timestamp, body) ==
    [present |-> TRUE, bytes |-> SignatureBytes, key |-> key,
     timestamp |-> timestamp, body |-> body]

NoSignature ==
    [present |-> FALSE, bytes |-> 0, key |-> "", timestamp |-> NoTimestamp,
     body |-> EmptyBody]

\* x-slack-signature: absent, a signature made with some key for this or for
\* another timestamp, or a value of another length; a request carries one
\* made for its own body or for another body
SignatureHeaders(timestamp, body) ==
    {NoSignature}
    \cup {Sign(k, t, body) :
            k \in SigningKeys, t \in {timestamp, [kind |-> "number", value |-> NowSeconds]}}
    \cup {[Sign(k, timestamp, body) EXCEPT !.bytes = SignatureBytes - 1] :
            k \in SigningKeys}

\* a request as the handler sees it; rawBody is set only when a body was parsed
Requests ==
    UNION {{[timestamp |-> t, signature |-> s, rawBody |-> TRUE, body |-> b] :
              s \in SignatureHeaders(t, b) \cup SignatureHeaders(t, EmptyBody)} :
           t \in TimestampHeaders, b \in Bodies}
    \cup UNION {{[timestamp |-> t, signature |-> s, rawBody |-> FALSE, body |-> EmptyBody] :
              s \in SignatureHeaders(t, EmptyBody)} :
           t \in TimestampHeaders}

NoRequest ==
    [timestamp |-> NoTimestamp, signature |-> NoSignature, rawBody |-> FALSE,
     body |-> EmptyBody]

NoReply == [status |-> 0, body |-> ""]

\* line 44: crypto.timingSafeEqual throws a RangeError when the two buffers
\* differ in byte length
timingSafeEqual(a, b) ==
    IF a.bytes # b.bytes THEN "threw"
    ELSE IF a = b THEN "true" ELSE "false"

\* lines 26-45; parseInt of a non-numeric header is NaN, and every comparison
\* with NaN is false
verifySlackSignature(req) ==
    IF req.timestamp.kind = "absent" \/ ~req.signature.present \/ ~req.rawBody
    THEN "false"
    ELSE IF /\ req.timestamp.kind = "number"
            /\ Abs(NowSeconds - req.timestamp.value) > ReplayWindow
    THEN "false"
    ELSE timingSafeEqual(Sign(SLACK_SIGNING_SECRET, req.timestamp, req.body),
                         req.signature)

\* what the client gets when the async handler rejects: no response at all
\* (Express 4 leaves the rejection unhandled) or the default error response
\* (Express 5)
RejectedReplies == {NoReply, [status |-> 500, body |-> "Internal Server Error"]}

\* lines 50-89: the handler up to its response or to the await of the publish
SlackEvents(req) ==
    /\ igPc = "idle"
    /\ igReq' = req
    /\ igVerified' = verifySlackSignature(req)
    /\ CASE igVerified' = "threw" ->
              /\ igRes' \in RejectedReplies
              /\ igPc' = "done"
         [] igVerified' = "false" ->
              /\ igRes' = [status |-> 401, body |-> "Invalid signature"]
              /\ igPc' = "done"
         [] igVerified' = "true" /\ req.body.type = "url_verification" ->
              /\ igRes' = [status |-> 200, body |-> "challenge"]
              /\ igPc' = "done"
         [] /\ igVerified' = "true"
            /\ req.body.type = "event_callback"
            /\ req.body.event = "app_mention" ->
              /\ igRes' = NoReply
              /\ igPc' = "publishing"
         [] OTHER ->
              /\ igRes' = [status |-> 200, body |-> "ok"]
              /\ igPc' = "done"
    /\ UNCHANGED published

\* lines 89-102: the publish resolved
PublishResolves ==
    /\ igPc = "publishing"
    /\ published' = Append(published, igReq.body)
    /\ igRes' = [status |-> 200, body |-> "ok"]
    /\ igPc' = "done"
    /\ UNCHANGED <<igReq, igVerified>>

\* lines 94-102: the publish rejected, the error is logged
PublishRejects ==
    /\ igPc = "publishing"
    /\ igRes' = [status |-> 200, body |-> "ok"]
    /\ igPc' = "done"
    /\ UNCHANGED <<igReq, igVerified, published>>

----------------------------------------------------------------------------
\* gemini.ts: buildSystemPrompt, generateAnswer

\* lines 10-30: the skill section is present exactly when skillMd is non-empty
buildSystemPrompt(skillMd) == [skillSection |-> skillMd # "", skillMd |-> skillMd]

\* line 59
ConfigErrorResult == [answer |-> ConfigErrorAnswer, success |-> FALSE, returned |-> TRUE]

\* Variant of CatchResult: the exception leaves generateAnswer.
Rethrown == [answer |-> "", success |-> FALSE, returned |-> FALSE]

\* The counters of messages sent are observations of the chat, not program
\* state: they stop counting one past the most a call can send (the question
\* and MAX_ITERATIONS tool-result messages).
CountCap == MAX_ITERATIONS + 2
Count(n) == IF n < CountCap THEN n + 1 ELSE n

\* Variant of CaughtAnswer: the message of the exception is shown to the user.
CaughtAnswerLeaks(message) == message

\* line 131: the answer of the catch clause does not use err
CaughtAnswer(message) == GenericErrorAnswer

\* lines 129-132: the catch clause turns any exception into the generic failure
CatchResult == [answer |-> CaughtAnswer(errMsg'), success |-> FALSE, returned |-> TRUE]

\* Variant of FinalResult: a loop left at the ceiling is reported as a failure.
FinalResultCeilingFails(resp) ==
    [answer |-> resp.text, success |-> iteration < MAX_ITERATIONS, returned |-> TRUE]

\* lines 126-127
FinalResult(resp) == [answer |-> resp.text, success |-> TRUE, returned |-> TRUE]

\* Variant of LoopCond: the bound is off by one.
LoopCondInclusive(i) == i <= MAX_ITERATIONS

\* line 85
LoopCond(i) == i < MAX_ITERATIONS

\* Variant of NextIteration: the counter is not advanced.
NextIterationStuck(i) == i

\* line 123
NextIteration(i) == i + 1

\* lines 100-105
ContentPart(call, content) == [name |-> call.name, kind |-> "content", payload |-> content]

\* lines 108-113
ErrorPart(call, message) == [name |-> call.name, kind |-> "error", payload |-> message]

\* Variant of PushPart: unshift instead of push.
PushPartFront(ps, part) == <<part>> \o ps

\* lines 100, 108: parts.push
PushPart(ps, part) == Append(ps, part)

\* An exception inside the try block (lines 62-128) reaches the catch clause.
Throw(origin) ==
    /\ pc' = "done"
    /\ err' = origin
    /\ errMsg' \in ErrorMessages
    /\ result' = CatchResult

\* Variant of Start: the credential check of lines 57-60 is missing.
StartUnchecked(q) ==
    /\ pc \in {"idle", "done"}
    /\ mcPc[Agent] = "idle"
    /\ question' = q
    /\ iteration' = 0
    /\ response' = NoResponse
    /\ callIdx' = 0
    /\ parts' = <<>>
    /\ systemPrompt' = NoPrompt
    /\ err' = "none"
    /\ errMsg' = ""
    /\ sent' = NoMessage
    /\ sentCount' = 0
    /\ roundsSent' = 0
    /\ toolLog' = <<>>
    /\ result' = NoResult
    /\ pc' = "getTools"
    /\ mcPc' = [mcPc EXCEPT ![Agent] = "called"]
    /\ UNCHANGED <<apiKey, client, conn, closes, closing, mcHandle, skillVars>>

\* lines 56-64: the credential check, then getGeminiTools enters getClient
Start(q) ==
    /\ pc \in {"idle", "done"}
    /\ mcPc[Agent] = "idle"
    /\ question' = q
    /\ iteration' = 0
    /\ response' = NoResponse
    /\ callIdx' = 0
    /\ parts' = <<>>
    /\ systemPrompt' = NoPrompt
    /\ err' = "none"
    /\ errMsg' = ""
    /\ sent' = NoMessage
    /\ sentCount' = 0
    /\ roundsSent' = 0
    /\ toolLog' = <<>>
    /\ IF ~apiKey
       THEN /\ result' = ConfigErrorResult
            /\ pc' = "done"
            /\ UNCHANGED mcPc
       ELSE /\ result' = NoResult
            /\ pc' = "getTools"
            /\ mcPc' = [mcPc EXCEPT ![Agent] = "called"]
    /\ UNCHANGED <<apiKey, client, conn, closes, closing, mcHandle, skillVars>>

\* getGeminiTools: listTools on the handle getClient returned resolves
\* (line 64); lines 65-68 follow and getSkillContext is entered
GetGeminiToolsOk ==
    /\ pc = "getTools"
    /\ mcPc[Agent] = "returned"
    /\ CanServe(mcHandle[Agent])
    /\ mcPc' = [mcPc EXCEPT ![Agent] = "idle"]
    /\ pc' = "getSkill"
    /\ SkillBegin(Agent)
    /\ UNCHANGED skLog
    /\ UNCHANGED <<apiKey, question, iteration, response, callIdx, parts,
                   systemPrompt, err, errMsg, result, sent, sentCount, roundsSent, toolLog>>
    /\ UNCHANGED <<client, conn, closes, closing, mcHandle>>

\* getGeminiTools rejects: getClient threw, or listTools failed (line 64)
GetGeminiToolsFail ==
    /\ pc = "getTools"
    /\ mcPc[Agent] \in {"returned", "threw"}
    /\ mcPc' = [mcPc EXCEPT ![Agent] = "idle"]
    /\ Throw("discovery")
    /\ UNCHANGED <<apiKey, question, iteration, response, callIdx, parts,
                   systemPrompt, sent, sentCount, roundsSent, toolLog>>
    /\ UNCHANGED <<client, conn, closes, closing, mcHandle, skillVars>>

\* lines 68-79: getSkillContext returned; the prompt is built, the chat is
\* started and the question is sent
SendQuestion ==
    /\ pc = "getSkill"
    /\ skPc[Agent] = "returned"
    /\ skPc' = [skPc EXCEPT ![Agent] = "idle"]
    /\ systemPrompt' = buildSystemPrompt(skRet[Agent])
    /\ sent' = [kind |-> "question", text |-> question, parts |-> <<>>]
    /\ sentCount' = Count(sentCount)
    /\ pc' = "awaitModel"
    /\ UNCHANGED <<apiKey, question, iteration, response, callIdx, parts,
                   err, errMsg, result, roundsSent, toolLog>>
    /\ UNCHANGED <<mcpVars, cachedContent, cachedAt, clock, ticks, skNow, skRet,
                   skLog>>

\* lines 79-82: the first model turn resolves
ModelFirstResponse(r) ==
    /\ pc = "awaitModel"
    /\ sent.kind = "question"
    /\ response' = r
    /\ iteration' = 0
    /\ sent' = NoMessage
    /\ pc' = "loop"
    /\ UNCHANGED <<apiKey, question, callIdx, parts, systemPrompt, err, errMsg, result,
                   sentCount, roundsSent, toolLog, mcpVars, skillVars>>

\* lines 118 and 123: a tool-result turn resolves and the counter is bumped;
\* the parts of the round (line 94, local to the if block) are gone
ModelRoundResponse(r) ==
    /\ pc = "awaitModel"
    /\ sent.kind = "parts"
    /\ response' = r
    /\ iteration' = NextIteration(iteration)
    /\ sent' = NoMessage
    /\ parts' = <<>>
    /\ toolLog' = <<>>
    /\ callIdx' = 0
    /\ pc' = "loop"
    /\ UNCHANGED <<apiKey, question, systemPrompt, err, errMsg, result,
                   sentCount, roundsSent, mcpVars, skillVars>>

\* lines 79, 118: chat.sendMessage rejects
ModelFail ==
    /\ pc = "awaitModel"
    /\ Throw("model")
    /\ UNCHANGED <<apiKey, question, iteration, response, callIdx, parts,
                   systemPrompt, sent, sentCount, roundsSent, toolLog, mcpVars,
                   skillVars>>

\* lines 126-127 (and 129-132 when response.text() throws)
ReturnAnswer ==
    IF response.blocked
    THEN Throw("text")
    ELSE /\ pc' = "done"
         /\ result' = FinalResult(response)
         /\ UNCHANGED <<err, errMsg>>

\* line 85 is false: the ceiling is reached, the loop is left
LoopExit ==
    /\ pc = "loop"
    /\ ~LoopCond(iteration)
    /\ ReturnAnswer
    /\ UNCHANGED <<apiKey, question, iteration, response, callIdx, parts,
                   systemPrompt, sent, sentCount, roundsSent, toolLog, mcpVars,
                   skillVars>>

\* line 90: response.functionCalls() throws on a blocked response
LoopThrow ==
    /\ pc = "loop"
    /\ LoopCond(iteration)
    /\ response.blocked
    /\ Throw("functionCalls")
    /\ UNCHANGED <<apiKey, question, iteration, response, callIdx, parts,
                   systemPrompt, sent, sentCount, roundsSent, toolLog, mcpVars,
                   skillVars>>

\* Variant of LoopBreak: the else branch is missing, an empty tool-result
\* message is sent.
LoopBreakResends ==
    /\ pc = "loop"
    /\ LoopCond(iteration)
    /\ ~response.blocked
    /\ Len(response.calls) = 0
    /\ sent' = [kind |-> "parts", text |-> "", parts |-> <<>>]
    /\ sentCount' = Count(sentCount)
    /\ roundsSent' = Count(roundsSent)
    /\ pc' = "awaitModel"
    /\ UNCHANGED <<apiKey, question, iteration, response, callIdx, parts,
                   systemPrompt, err, errMsg, result, toolLog, mcpVars, skillVars>>

\* lines 119-122: no function calls, break
LoopBreak ==
    /\ pc = "loop"
    /\ LoopCond(iteration)
    /\ ~response.blocked
    /\ Len(response.calls) = 0
    /\ ReturnAnswer
    /\ UNCHANGED <<apiKey, question, iteration, response, callIdx, parts,
                   systemPrompt, sent, sentCount, roundsSent, toolLog, mcpVars,
                   skillVars>>

\* lines 92-97: function calls are present, the for loop is entered
LoopTools ==
    /\ pc = "loop"
    /\ LoopCond(iteration)
    /\ ~response.blocked
    /\ Len(response.calls) > 0
    /\ parts' = <<>>
    /\ toolLog' = <<>>
    /\ callIdx' = 1
    /\ pc' = "tools"
    /\ UNCHANGED <<apiKey, question, iteration, response, systemPrompt, err, errMsg,
                   result, sent, sentCount, roundsSent, mcpVars, skillVars>>

\* lines 97, 115-118: the part of the current call is pushed; after the last
\* call of the turn the parts are sent to the model
AfterTool(part, entry) ==
    /\ parts' = PushPart(parts, part)
    /\ toolLog' = Append(toolLog, entry)
    /\ IF callIdx = Len(response.calls)
       THEN /\ sent' = [kind |-> "parts", text |-> "", parts |-> parts']
            /\ sentCount' = Count(sentCount)
            /\ roundsSent' = Count(roundsSent)
            /\ pc' = "awaitModel"
            /\ UNCHANGED callIdx
       ELSE /\ callIdx' = callIdx + 1
            /\ UNCHANGED <<sent, sentCount, roundsSent, pc>>
    /\ UNCHANGED <<apiKey, question, iteration, response, systemPrompt, err, errMsg,
                   result, mcpVars, skillVars>>

\* callMcpTool resolves only for a tool of the catalog
CallMcpToolServes(call) == call.name \in Catalog

\* callMcpTool rejects with ToolInvocationError: the given messages for a
\* served tool, the unknown-tool message otherwise
CallMcpToolErrors(call) ==
    IF call.name \in Catalog THEN ToolErrors ELSE {UnknownToolError}

\* lines 99-105: callMcpTool resolves
ToolOk(content) ==
    /\ pc = "tools"
    /\ CallMcpToolServes(response.calls[callIdx])
    /\ LET call == response.calls[callIdx]
       IN  AfterTool(ContentPart(call, content),
                     [name |-> call.name, args |-> call.args, ok |-> TRUE,
                      payload |-> content])

\* Variant of ToolErr: no inner try/catch, the rejection reaches line 129.
ToolErrAborts(message) ==
    /\ pc = "tools"
    /\ message \in CallMcpToolErrors(response.calls[callIdx])
    /\ toolLog' = Append(toolLog,
                     [name |-> response.calls[callIdx].name,
                      args |-> response.calls[callIdx].args,
                      ok |-> FALSE, payload |-> message])
    /\ Throw("tool")
    /\ UNCHANGED <<apiKey, question, iteration, response, callIdx, parts,
                   systemPrompt, sent, sentCount, roundsSent, mcpVars, skillVars>>

\* lines 99, 106-114: callMcpTool rejects, the error is folded into a part
ToolErr(message) ==
    /\ pc = "tools"
    /\ message \in CallMcpToolErrors(response.calls[callIdx])
    /\ LET call == response.calls[callIdx]
       IN  AfterTool(ErrorPart(call, message),
                     [name |-> call.name, args |-> call.args, ok |-> FALSE,
                      payload |-> message])

----------------------------------------------------------------------------
\* The worker process: generateAnswer calls one after the other.

Init ==
    /\ apiKey \in BOOLEAN
    /\ pc = "idle"
    /\ question = "q1"
    /\ iteration = 0
    /\ response = NoResponse
    /\ callIdx = 0
    /\ parts = <<>>
    /\ systemPrompt = NoPrompt
    /\ err = "none"
    /\ errMsg = ""
    /\ result = NoResult
    /\ sent = NoMessage
    /\ sentCount = 0
    /\ roundsSent = 0
    /\ toolLog = <<>>
    /\ client = NoClient
    /\ conn = [h \in Handles |-> "unused"]
    /\ closes = 0
    /\ closing = 0
    /\ mcPc = [c \in Callers |-> "idle"]
    /\ mcHandle = [c \in Callers |-> NoClient]
    /\ cachedContent = Null
    /\ cachedAt = 0
    /\ clock = StartClock
    /\ ticks = 0
    /\ skPc = [c \in Callers |-> "idle"]
    /\ skNow = [c \in Callers |-> 0]
    /\ skRet = [c \in Callers |-> ""]
    /\ skLog = <<>>
    /\ sdPc = "idle"
    /\ sdTools = <<>>
    /\ searchTool = NoTool
    /\ sdCall = NoCall
    /\ sdOut = NoOut
    /\ igPc = "idle"
    /\ igReq = NoRequest
    /\ igVerified = "none"
    /\ igRes = NoReply
    /\ published = <<>>

Resting == pc \in {"idle", "done"}

\* the steps of a running generateAnswer call
AgentStep ==
    \/ GetClientCached(Agent) /\ UNCHANGED <<agentVars, skillVars>>
           /\ UNCHANGED <<searchVars, ingestVars>>
    \/ GetClientNew(Agent) /\ UNCHANGED <<agentVars, skillVars>>
           /\ UNCHANGED <<searchVars, ingestVars>>
    \/ ConnectOk(Agent) /\ UNCHANGED <<agentVars, skillVars>>
           /\ UNCHANGED <<searchVars, ingestVars>>
    \/ ConnectFail(Agent) /\ UNCHANGED <<agentVars, skillVars>>
           /\ UNCHANGED <<searchVars, ingestVars>>
    \/ ClientListOk(Agent) /\ UNCHANGED <<agentVars, skillVars>>
           /\ UNCHANGED <<searchVars, ingestVars>>
    \/ ClientListFail(Agent) /\ UNCHANGED <<agentVars, skillVars>>
           /\ UNCHANGED <<searchVars, ingestVars>>
    \/ GetGeminiToolsOk /\ UNCHANGED <<searchVars, ingestVars>>
    \/ GetGeminiToolsFail /\ UNCHANGED <<searchVars, ingestVars>>
    \/ \E text \in SkillTexts : SkillFetchOk(Agent, text) /\ UNCHANGED <<agentVars, mcpVars, skLog>>
           /\ UNCHANGED <<searchVars, ingestVars>>
    \/ SkillFetchFail(Agent) /\ UNCHANGED <<agentVars, mcpVars, skLog>>
           /\ UNCHANGED <<searchVars, ingestVars>>
    \/ SendQuestion /\ UNCHANGED <<searchVars, ingestVars>>
    \/ \E r \in Responses : ModelFirstResponse(r) /\ UNCHANGED <<searchVars, ingestVars>>
    \/ \E r \in Responses : ModelRoundResponse(r) /\ UNCHANGED <<searchVars, ingestVars>>
    \/ ModelFail /\ UNCHANGED <<searchVars, ingestVars>>
    \/ LoopExit /\ UNCHANGED <<searchVars, ingestVars>>
    \/ LoopThrow /\ UNCHANGED <<searchVars, ingestVars>>
    \/ LoopBreak /\ UNCHANGED <<searchVars, ingestVars>>
    \/ LoopTools /\ UNCHANGED <<searchVars, ingestVars>>
    \/ \E content \in ToolContents : ToolOk(content)
           /\ UNCHANGED <<searchVars, ingestVars>>
    \/ \E message \in ToolErrors \cup {UnknownToolError} : ToolErr(message)
           /\ UNCHANGED <<searchVars, ingestVars>>

\* The clock is read once per call, at line 8 of skill.ts, which runs when
\* tool discovery resolves: time passing anywhere else is time passing before
\* the first call or during a discovery.
TimePasses ==
    /\ pc \in {"idle", "getTools"}
    /\ \E d \in TickSteps : Tick(d)
    /\ UNCHANGED <<agentVars, mcpVars, skLog, searchVars, ingestVars>>

\* the next call starts, the clock advances
Next ==
    \/ \E q \in Questions : Start(q) /\ UNCHANGED <<searchVars, ingestVars>>
    \/ AgentStep
    \/ TimePasses

Spec == Init /\ [][Next]_vars

\* every pending network call completes or fails
FairSpec == Spec /\ WF_vars(AgentStep)

----------------------------------------------------------------------------
\* skill.ts on its own: getSkillContext called by overlapping callers (two
\* questions handled at once), each fetch completing at any time.

\* the history entry of caller c's running call gets its outcome
Mark(c, outcome) ==
    [i \in DOMAIN skLog |->
        IF skLog[i].caller = c /\ skLog[i].outcome = "pending"
        THEN [skLog[i] EXCEPT !.outcome = outcome]
        ELSE skLog[i]]

CallerBegin(c) ==
    /\ Len(skLog) < MaxSkillCalls
    /\ SkillBegin(c)
    /\ skLog' = Append(skLog,
                  [caller |-> c, at |-> clock,
                   overlapped |-> \E d \in Callers : skPc[d] = "fetching",
                   outcome |-> IF skPc'[c] = "returned" THEN "hit" ELSE "pending"])
    /\ UNCHANGED <<agentVars, mcpVars>>

CallerFetchOk(c, text) ==
    /\ SkillFetchOk(c, text)
    /\ skLog' = Mark(c, "ok")
    /\ UNCHANGED <<agentVars, mcpVars>>

CallerFetchFail(c) ==
    /\ SkillFetchFail(c)
    /\ skLog' = Mark(c, "fail")
    /\ UNCHANGED <<agentVars, mcpVars>>

\* the awaiting caller resumes with the returned value
CallerReturn(c) ==
    /\ skPc[c] = "returned"
    /\ skPc' = [skPc EXCEPT ![c] = "idle"]
    /\ UNCHANGED <<agentVars, mcpVars, cachedContent, cachedAt, clock, ticks, skNow,
                   skRet, skLog>>

ClockAdvances ==
    /\ \E d \in TickSteps : Tick(d)
    /\ UNCHANGED <<agentVars, mcpVars, skLog, searchVars, ingestVars>>

SkillNext ==
    \/ \E c \in Callers : CallerBegin(c) /\ UNCHANGED <<searchVars, ingestVars>>
    \/ \E c \in Callers, text \in SkillTexts : CallerFetchOk(c, text)
           /\ UNCHANGED <<searchVars, ingestVars>>
    \/ \E c \in Callers : CallerFetchFail(c) /\ UNCHANGED <<searchVars, ingestVars>>
    \/ \E c \in Callers : CallerReturn(c) /\ UNCHANGED <<searchVars, ingestVars>>
    \/ ClockAdvances

SkillSpec == Init /\ [][SkillNext]_vars

----------------------------------------------------------------------------
\* mcp.ts on its own: getClient entered by overlapping callers, closeClient
\* called at any time.

\* searchDocuments lines 41-44: getClient resolved, listTools is requested on
\* the handle it returned, whatever the state of that handle's connection; on
\* null the call throws a TypeError
McpRequest(c) ==
    /\ mcPc[c] = "returned"
    /\ mcPc' = [mcPc EXCEPT ![c] =
                  CASE mcHandle[c] = NoClient           -> "threw"
                    [] conn[mcHandle[c]] = "connected"  -> "requested"
                    [] conn[mcHandle[c]] = "connecting" -> "requestedEarly"
                    [] OTHER                            -> "requestedDead"]
    /\ UNCHANGED <<client, conn, closes, closing, mcHandle>>

\* searchDocuments settles: getClient threw, or the request was answered or
\* refused
McpResume(c) ==
    /\ mcPc[c] \in {"threw", "requested", "requestedEarly", "requestedDead"}
    /\ mcPc' = [mcPc EXCEPT ![c] = "idle"]
    /\ UNCHANGED <<client, conn, closes, closing, mcHandle>>

McpNext ==
    \/ \E c \in Callers : McpCall(c) /\ UNCHANGED <<agentVars, skillVars>>
           /\ UNCHANGED <<searchVars, ingestVars>>
    \/ \E c \in Callers : GetClientCached(c) /\ UNCHANGED <<agentVars, skillVars>>
           /\ UNCHANGED <<searchVars, ingestVars>>
    \/ \E c \in Callers : GetClientNew(c) /\ UNCHANGED <<agentVars, skillVars>>
           /\ UNCHANGED <<searchVars, ingestVars>>
    \/ \E c \in Callers : ConnectOk(c) /\ UNCHANGED <<agentVars, skillVars>>
           /\ UNCHANGED <<searchVars, ingestVars>>
    \/ \E c \in Callers : ConnectFail(c) /\ UNCHANGED <<agentVars, skillVars>>
           /\ UNCHANGED <<searchVars, ingestVars>>
    \/ \E c \in Callers : ClientListOk(c) /\ UNCHANGED <<agentVars, skillVars>>
           /\ UNCHANGED <<searchVars, ingestVars>>
    \/ \E c \in Callers : ClientListFail(c) /\ UNCHANGED <<agentVars, skillVars>>
           /\ UNCHANGED <<searchVars, ingestVars>>
    \/ \E c \in Callers : McpRequest(c) /\ UNCHANGED <<agentVars, skillVars>>
           /\ UNCHANGED <<searchVars, ingestVars>>
    \/ \E c \in Callers : McpResume(c) /\ UNCHANGED <<agentVars, skillVars>>
           /\ UNCHANGED <<searchVars, ingestVars>>
    \/ CloseClient /\ UNCHANGED <<agentVars, skillVars>>
           /\ UNCHANGED <<searchVars, ingestVars>>
    \/ CloseResolves /\ UNCHANGED <<agentVars, skillVars>>
           /\ UNCHANGED <<searchVars, ingestVars>>
    \/ CloseRejects /\ UNCHANGED <<agentVars, skillVars>>
           /\ UNCHANGED <<searchVars, ingestVars>>

McpSpec == Init /\ [][McpNext]_vars

----------------------------------------------------------------------------
\* searchDocuments on its own, from the moment getClient has resolved.

NameSearch == <<"S", "e", "a", "r", "c", "h">>
NameQuery == <<"d", "o", "c", "_", "Q", "U", "E", "R", "Y">>
NameFetch == <<"f", "e", "t", "c", "h">>
NameSplit == <<"s", "e", "a", "r", "_", "c", "h">>

\* what listTools can answer
ToolLists ==
    {<<>>, <<NameFetch>>, <<NameFetch, NameSplit>>, <<NameSearch>>,
     <<NameFetch, NameQuery>>, <<NameQuery, NameSearch>>, <<NameSplit, NameSearch, NameQuery>>}

LinkA == <<"[", "a", "]", "(", "h", "t", "t", "p", ":", "/", "/", "x", ")">>
LinkB == <<"[", "b", "]", "(", "h", "t", "t", "p", ":", "/", "/", "y", ")">>
LinkSecure == <<"[", "a", "]", "(", "h", "t", "t", "p", "s", ":", "/", "/", "x", ")">>
LinkFtp == <<"[", "a", "]", "(", "f", "t", "p", ":", "/", "/", "x", ")">>
LinkNoUrl == <<"[", "a", "]", "(", "h", "t", "t", "p", ":", "/", "/", ")">>
LinkNoLabel == <<"[", "]", "(", "h", "t", "t", "p", ":", "/", "/", "x", ")">>

\* the text of one content item
SegmentTexts ==
    {<<>>, <<" ", "t", "\n">>, <<"\f", "t", "", "\r", "\n">>, LinkA, LinkB, LinkSecure, LinkFtp, LinkNoUrl,
     LinkNoLabel \o LinkB, <<"[">> \o LinkA,
     LinkA \o <<" ">> \o LinkA, LinkA \o <<"\n">> \o LinkB \o <<" ">> \o LinkA}

\* one item of result.content
ContentItems ==
    {[type |-> "text", isString |-> TRUE, text |-> t] : t \in SegmentTexts}
    \cup {[type |-> "image", isString |-> FALSE, text |-> <<>>],
          [type |-> "text", isString |-> FALSE, text |-> <<>>]}

\* what callTool can answer
ToolResults ==
    {[isArray |-> TRUE, items |-> items] : items \in SeqsUpTo(ContentItems, MaxItems)}
    \cup {[isArray |-> FALSE, items |-> <<>>]}

SearchNext ==
    \/ \E q \in Questions : SearchBegin(q)
           /\ UNCHANGED <<agentVars, mcpVars, skillVars, ingestVars>>
    \/ SearchListFails /\ UNCHANGED <<agentVars, mcpVars, skillVars, ingestVars>>
    \/ \E tools \in ToolLists : SearchListResolves(tools)
           /\ UNCHANGED <<agentVars, mcpVars, skillVars, ingestVars>>
    \/ SearchCallFails /\ UNCHANGED <<agentVars, mcpVars, skillVars, ingestVars>>
    \/ \E res \in ToolResults : SearchCallResolves(res)
           /\ UNCHANGED <<agentVars, mcpVars, skillVars, ingestVars>>

SearchSpec == Init /\ [][SearchNext]_vars

----------------------------------------------------------------------------
\* The ingest service handling one request.

IngestNext ==
    \/ \E req \in Requests : SlackEvents(req)
           /\ UNCHANGED <<agentVars, mcpVars, skillVars, searchVars>>
    \/ PublishResolves /\ UNCHANGED <<agentVars, mcpVars, skillVars, searchVars>>
    \/ PublishRejects /\ UNCHANGED <<agentVars, mcpVars, skillVars, searchVars>>

IngestSpec == Init /\ [][IngestNext]_vars

----------------------------------------------------------------------------
\* Properties of generateAnswer (Spec, FairSpec).

\* C1: the iteration counter never exceeds 10 and at most 10 tool-result
\* messages are sent to the model within one generateAnswer call, whatever
\* the model answers.
C1_IterationBounded ==
    /\ iteration <= MAX_ITERATIONS
    /\ roundsSent <= MAX_ITERATIONS

\* the model asked for tools in all of its 11 responses
C1_Witness ==
    /\ iteration = MAX_ITERATIONS
    /\ roundsSent = MAX_ITERATIONS
    /\ Len(response.calls) > 0

\* C2: every generateAnswer call that has started eventually returns a
\* result, provided every pending network call completes or fails.
C2_Terminates == (~Resting) ~> (pc = "done" /\ result.returned)

\* a call returned after ten tool rounds
C2_Witness ==
    /\ pc = "done"
    /\ result.returned
    /\ roundsSent = MAX_ITERATIONS
    /\ systemPrompt.skillSection

\* C3: when the loop is left at the ceiling (ten tool rounds were answered)
\* and the last response is readable, the call returns success with the text
\* of that last response.
C3_CeilingIsSuccess ==
    (pc = "done" /\ iteration = MAX_ITERATIONS /\ ~response.blocked)
        => result = [answer |-> response.text, success |-> TRUE, returned |-> TRUE]

\* the last response still asks for tools and carries no text
C3_Witness ==
    /\ pc = "done"
    /\ iteration = MAX_ITERATIONS
    /\ Len(response.calls) > 0
    /\ response.text = ""
    /\ result.success
    /\ result.answer = ""

FailedCalls == {k \in DOMAIN toolLog : ~toolLog[k].ok}

\* C4: a failing tool invocation does not end the loop: its error message is
\* the payload of the part at its position, the remaining calls of the turn
\* are still invoked, and the message sent next carries that part.
C4_ToolFailureFolded ==
    /\ (pc = "done" /\ FailedCalls # {}) => err = "model"
    /\ pc = "tools" =>
        /\ Len(parts) = Len(toolLog)
        /\ \A k \in FailedCalls :
            parts[k] = [name |-> toolLog[k].name, kind |-> "error",
                        payload |-> toolLog[k].payload]
    /\ (pc = "awaitModel" /\ sent.kind = "parts") =>
        /\ Len(toolLog) = Len(response.calls)
        /\ Len(sent.parts) = Len(toolLog)
        /\ \A k \in FailedCalls :
            sent.parts[k] = [name |-> toolLog[k].name, kind |-> "error",
                             payload |-> toolLog[k].payload]

\* the first call of a turn failed, the second was invoked and succeeded, and
\* both parts are on their way to the model
C4_Witness ==
    /\ pc = "awaitModel"
    /\ sent.kind = "parts"
    /\ Len(toolLog) = 2
    /\ ~toolLog[1].ok
    /\ toolLog[2].ok
    /\ sent.parts[1].kind = "error"
    /\ sent.parts[1].payload \in ToolErrors

\* the part that answers invocation k
PartOf(k) ==
    [name |-> toolLog[k].name,
     kind |-> IF toolLog[k].ok THEN "content" ELSE "error",
     payload |-> toolLog[k].payload]

\* C5: the calls of a model turn are invoked once each, in request order, and
\* the next message carries exactly one part per call, the k-th part being
\* the outcome of the k-th call.
C5_OnePartPerCallInOrder ==
    /\ pc = "tools" =>
        /\ Len(toolLog) = callIdx - 1
        /\ \A k \in DOMAIN toolLog :
            /\ toolLog[k].name = response.calls[k].name
            /\ toolLog[k].args = response.calls[k].args
    /\ (pc = "awaitModel" /\ sent.kind = "parts") =>
        /\ Len(toolLog) = Len(response.calls)
        /\ Len(sent.parts) = Len(response.calls)
        /\ \A k \in DOMAIN toolLog :
            /\ toolLog[k].name = response.calls[k].name
            /\ toolLog[k].args = response.calls[k].args
            /\ sent.parts[k] = PartOf(k)

\* two identical calls in one turn were both invoked, with different outcomes
C5_Witness ==
    /\ pc = "awaitModel"
    /\ sent.kind = "parts"
    /\ Len(response.calls) = 2
    /\ response.calls[1] = response.calls[2]
    /\ toolLog[1].ok
    /\ ~toolLog[2].ok
    /\ sent.parts[1].kind = "content"
    /\ sent.parts[2].kind = "error"

\* C6: generateAnswer never rejects: whenever it is over it has returned a
\* result, and after an exception outside the per-call handling the result is
\* the generic failure.
C6_AlwaysReturnsResult ==
    /\ pc = "done" =>
        /\ result.returned
        /\ err # "none" => (~result.success /\ result.answer = GenericErrorAnswer)
    /\ pc # "done" => result = NoResult

\* reading the final text threw
C6_Witness ==
    /\ pc = "done"
    /\ err = "text"
    /\ result.returned
    /\ ~result.success

\* C7: with the credential missing, or tool discovery failing, generateAnswer
\* returns success = false and no message was sent to the model.
C7_NoModelContactOnPreflightFailure ==
    /\ ~apiKey => sentCount = 0
    /\ (pc = "done" /\ (~apiKey \/ err = "discovery")) =>
        /\ ~result.success
        /\ result.returned
        /\ sentCount = 0
        /\ sent = NoMessage

\* discovery failed because the connection could not be established
C7_Witness ==
    /\ pc = "done"
    /\ apiKey
    /\ err = "discovery"
    /\ client # NoClient
    /\ conn[client] = "closed"
    /\ sentCount = 0

\* C10 (as claimed): after a failed connect the cached client handle is empty,
\* so the handle kept in the module variable is never one whose connect failed.
C10_FailedConnectLeavesHandleEmpty ==
    client # NoClient => conn[client] \in {"connecting", "connected"}

----------------------------------------------------------------------------
\* Properties of getSkillContext (SkillSpec).

CallsDone == \A c \in Callers : skPc[c] # "fetching"

\* fetch(SKILL_MD_URL) requests issued so far: every call that was not served
\* from the cache issued one
fetchCount == Cardinality({i \in DOMAIN skLog : skLog[i].outcome # "hit"})

\* C8 (as claimed): from an empty cache, two calls within the one-hour window
\* issue exactly one fetch in total.
C8_TwoCallsOneFetch ==
    (Len(skLog) = 2 /\ CallsDone /\ skLog[2].at - skLog[1].at < CACHE_TTL_MS)
        => fetchCount = 1

\* C8 (amended): from an empty cache, two calls within the one-hour window
\* issue exactly one fetch when the first call's fetch succeeded before the
\* second call began, and two fetches when the first fetch failed or was still
\* pending.
C8_OneFetchAfterCompletedSuccess ==
    (Len(skLog) = 2 /\ CallsDone /\ skLog[2].at - skLog[1].at < CACHE_TTL_MS)
        => fetchCount =
             IF skLog[1].outcome = "ok" /\ ~skLog[2].overlapped THEN 1 ELSE 2

\* the second call came CACHE_TTL_MS - 1 after the first and was served
\* from the cache
C8_Witness ==
    /\ Len(skLog) = 2
    /\ CallsDone
    /\ skLog[1].outcome = "ok"
    /\ skLog[2].outcome = "hit"
    /\ skLog[2].at - skLog[1].at = CACHE_TTL_MS - 1
    /\ fetchCount = 1

\* C9: a step in which a fetch fails changes neither cachedContent nor
\* cachedAt and returns the cached content, or "" when there is none; and no
\* step turns a present cachedContent into null.
C9_FailureKeepsCache ==
    [][/\ cachedContent # Null => cachedContent' # Null
       /\ \A i \in DOMAIN skLog :
            (skLog[i].outcome = "pending" /\ skLog'[i].outcome = "fail") =>
                /\ cachedContent' = cachedContent
                /\ cachedAt' = cachedAt
                /\ skRet'[skLog[i].caller] =
                     IF cachedContent = Null THEN "" ELSE cachedContent]_vars

\* a refresh of a stale, non-empty cache failed and the stale content was
\* returned
C9_Witness ==
    \E i \in DOMAIN skLog :
        /\ skLog[i].outcome = "fail"
        /\ cachedContent = "s1"
        /\ clock - cachedAt >= CACHE_TTL_MS
        /\ skPc[skLog[i].caller] = "returned"
        /\ skRet[skLog[i].caller] = "s1"

----------------------------------------------------------------------------
\* Further properties of generateAnswer (Spec).

\* C12: a failed generateAnswer returns one fixed answer per error class, the
\* configuration message when the credential is missing and the generic
\* message otherwise, whatever the message of the underlying exception.
C12_FailureAnswerFixedPerClass ==
    (pc = "done" /\ ~result.success) =>
        /\ result.answer = IF apiKey THEN GenericErrorAnswer ELSE ConfigErrorAnswer
        /\ apiKey => (err # "none" /\ errMsg \in ErrorMessages)
        /\ ~apiKey => (err = "none" /\ errMsg = "")

\* a model turn failed with message m2 and the answer is the generic one
C12_Witness ==
    /\ pc = "done"
    /\ err = "model"
    /\ errMsg = "m2"
    /\ ~result.success
    /\ result.answer = GenericErrorAnswer

\* C15: a readable response without function calls, seen below the ceiling,
\* ends the call in the next step with success and that response's text; no
\* tool is invoked and no message is sent after it.
C15_NoCallsEndsTheLoop ==
    /\ [](( pc = "done" /\ result.success /\ iteration < MAX_ITERATIONS) =>
            /\ Len(response.calls) = 0
            /\ result.answer = response.text
            /\ toolLog = <<>>
            /\ sent = NoMessage)
    /\ [][(pc = "loop" /\ iteration < MAX_ITERATIONS /\ ~response.blocked
              /\ Len(response.calls) = 0) =>
            /\ pc' = "done"
            /\ result' = [answer |-> response.text, success |-> TRUE, returned |-> TRUE]
            /\ response' = response
            /\ sentCount' = sentCount
            /\ toolLog' = <<>>
            /\ sent' = NoMessage]_vars

\* one tool round, then a final text: two messages were sent
C15_Witness ==
    /\ pc = "done"
    /\ result.success
    /\ iteration = 1
    /\ Len(response.calls) = 0
    /\ result.answer = "t1"
    /\ sentCount = 2
    /\ roundsSent = 1

\* C16: no tool call is executed once the counter is at the ceiling, so the
\* calls of the response that arrives at the ceiling are never invoked, and
\* the model is sent at most MAX_ITERATIONS + 1 messages in one call.
C16_CeilingCallsNotExecuted ==
    /\ sentCount <= MAX_ITERATIONS + 1
    /\ pc = "tools" => iteration < MAX_ITERATIONS
    /\ toolLog # <<>> => iteration < MAX_ITERATIONS
    /\ (pc = "done" /\ iteration = MAX_ITERATIONS) => (toolLog = <<>> /\ sent = NoMessage)

\* the eleventh response asked for MaxCalls tools and none was invoked
C16_Witness ==
    /\ pc = "done"
    /\ iteration = MAX_ITERATIONS
    /\ Len(response.calls) = MaxCalls
    /\ toolLog = <<>>
    /\ sentCount = MAX_ITERATIONS + 1
    /\ result.success

\* C17: a failed fetch of skill.md inside generateAnswer does not end the
\* call: getSkillContext returns the cached content, or "" when there is
\* none, and the next step sends the question with a system prompt built from
\* that value.
C17_SkillFailureDoesNotFailAnswer ==
    /\ [][(pc = "getSkill" /\ skPc[Agent] = "fetching" /\ skPc'[Agent] # "fetching"
              /\ cachedContent' = cachedContent /\ cachedAt' = cachedAt) =>
            /\ pc' = "getSkill"
            /\ result' = NoResult
            /\ skPc'[Agent] = "returned"
            /\ skRet'[Agent] = IF cachedContent = Null THEN "" ELSE cachedContent]_vars
    /\ [][(pc = "getSkill" /\ skPc[Agent] = "returned") =>
            /\ pc' = "awaitModel"
            /\ sent'.kind = "question"
            /\ systemPrompt' = [skillSection |-> skRet[Agent] # "",
                                skillMd |-> skRet[Agent]]]_vars

\* the refresh of a stale skill.md failed and the question went out with the
\* stale content in the prompt
C17_Witness ==
    /\ pc = "awaitModel"
    /\ sent.kind = "question"
    /\ cachedContent = "s1"
    /\ clock - cachedAt >= CACHE_TTL_MS
    /\ systemPrompt = [skillSection |-> TRUE, skillMd |-> "s1"]

----------------------------------------------------------------------------
\* Further properties of getSkillContext (SkillSpec).

\* C14: a call that begins while the cache holds content younger than
\* CACHE_TTL_MS returns that content unchanged in the same step, issues no
\* fetch and leaves cachedContent and cachedAt as they were.
C14_FreshCacheServedWithoutFetch ==
    [][\A c \in Callers :
          (skPc[c] = "idle" /\ skPc'[c] # "idle"
              /\ cachedContent # Null /\ clock - cachedAt < CACHE_TTL_MS) =>
            /\ skPc'[c] = "returned"
            /\ skRet'[c] = cachedContent
            /\ cachedContent' = cachedContent
            /\ cachedAt' = cachedAt
            /\ fetchCount' = fetchCount]_vars

\* a call made one millisecond before expiry was served from the cache
C14_Witness ==
    \E i \in DOMAIN skLog :
        /\ skLog[i].outcome = "hit"
        /\ skLog[i].at - cachedAt = CACHE_TTL_MS - 1
        /\ skPc[skLog[i].caller] = "returned"
        /\ skRet[skLog[i].caller] = cachedContent
        /\ fetchCount = 1

\* C19 as stated: cachedAt never decreases, whatever the interleaving of
\* overlapping calls.
C19_CachedAtNeverDecreases == [][cachedAt' >= cachedAt]_vars

\* C19 amended: cachedAt never decreases as long as no call began while
\* another call's fetch was pending.
C19_CachedAtMonotoneWithoutOverlap ==
    [][(\A i \in DOMAIN skLog' : ~skLog'[i].overlapped) => cachedAt' >= cachedAt]_vars

\* two calls one after the other both fetched, and the timestamp moved forward
C19_Witness ==
    /\ Len(skLog) = 2
    /\ \A i \in DOMAIN skLog : ~skLog[i].overlapped /\ skLog[i].outcome = "ok"
    /\ cachedAt = skLog[2].at
    /\ cachedAt > skLog[1].at

----------------------------------------------------------------------------
\* Properties of getClient under overlapping callers (McpSpec).

\* C18: no caller obtains from getClient a handle whose connect is still
\* pending, and no request is issued on such a handle.
C18_NoHandleBeforeConnected ==
    \A c \in Callers :
        /\ (mcPc[c] = "returned" /\ mcHandle[c] # NoClient) =>
              conn[mcHandle[c]] # "connecting"
        /\ mcPc[c] # "requestedEarly"

----------------------------------------------------------------------------
\* Properties of searchDocuments (SearchSpec).

\* C11: when no tool of the catalog matches the wanted name, the invocation
\* ends with an error the caller can catch, not with a returned result.
C11_UnknownToolFails ==
    (sdPc = "done" /\ searchTool.listed /\ ~searchTool.found) =>
        sdOut.settled = "threw"

NoDuplicates(list) == \A i, j \in DOMAIN list : list[i] = list[j] => i = j

Range(list) == {list[i] : i \in DOMAIN list}

\* the content of a result with the two text segments "[a](http://x)
\* [a](http://x)" and "[b](http://y)"
TwiceAThenB == LinkA \o <<" ">> \o LinkA \o <<"\n", "\n">> \o LinkB

\* C13: the sources of a returned result hold no value twice and hold every
\* link matched in the text segments; every source is a piece of the content;
\* text with [a](http://x) twice and [b](http://y) once gives exactly these
\* two entries; a link without an http or https url gives none; and
\* deduplicating the returned list again leaves it as it is.
C13_SourcesDistinctAndComplete ==
    (sdPc = "done" /\ sdOut.settled = "returned") =>
        /\ NoDuplicates(sdOut.sources)
        /\ Range(sdOut.sources) = Range(sdOut.pushed)
        /\ \A i \in DOMAIN sdOut.sources : includes(sdOut.content, sdOut.sources[i])
        /\ Dedup(sdOut.sources) = sdOut.sources
        /\ sdOut.content = TwiceAThenB => sdOut.sources = <<LinkA, LinkB>>
        /\ sdOut.content = LinkA \o <<"\n">> \o LinkB \o <<" ">> \o LinkA =>
              sdOut.sources = <<LinkA, LinkB>>
        /\ sdOut.content \in {LinkFtp, LinkNoUrl, <<"t">>} => sdOut.sources = <<>>

\* [a](http://x) was matched twice and [b](http://y) once, two were returned
C13_Witness ==
    /\ sdPc = "done"
    /\ sdCall.sent
    /\ sdOut.content = TwiceAThenB
    /\ sdOut.pushed = <<LinkA, LinkA, LinkB>>
    /\ sdOut.sources = <<LinkA, LinkB>>

----------------------------------------------------------------------------
\* Properties of the /slack/events handler (IngestSpec).

\* C20: a message is published only for a verified event_callback whose event
\* is an app_mention; a request that did not pass verification is answered
\* 401 with nothing published; a verified request is answered 200.
C20_PublishOnlyVerifiedMentions ==
    /\ published # <<>> =>
          /\ igVerified = "true"
          /\ igReq.body = [type |-> "event_callback", event |-> "app_mention"]
    /\ (igPc = "done" /\ igVerified # "true") =>
          (igRes.status = 401 /\ published = <<>>)
    /\ (igPc = "done" /\ igVerified = "true") => igRes.status = 200

====
